---- MODULE Spec2Model ----
(***************************************************************************)
(* Model of the request-dispatch engine of load_balancer.py: the module    *)
(* level registries (servers, clients, request_queue, pending_requests,    *)
(* all_requests), the LoadBalancer operations configure / add_request /    *)
(* process_requests, and the server_down / server_up endpoints.            *)
(*                                                                         *)
(* request_queue is queue.PriorityQueue: a binary heap kept in a list      *)
(* (request_queue.queue) holding tuples (priority, (client_id,             *)
(* request_id)), compared as Python compares tuples.                       *)
(***************************************************************************)
EXTENDS Integers, Sequences, FiniteSets, TLC

\* ---- bounds of the model ------------------------------------------------
MaxServers == 2
MaxClients == 2
MaxQuota == 1
MaxRid == 1
MaxPri == 2
MaxLedger == 2
MaxThreads == 2

ServerCounts == 1..MaxServers
ClientCounts == 1..MaxClients
QuotaVals == 1..MaxQuota
ClientIds == 0..MaxClients
RequestIds == 1..MaxRid
Priorities == 0..MaxPri
ServerIds == 0..MaxServers
Threads == 1..MaxThreads

\* ---- responses (the strings of the code) ---------------------------------
InvalidClient == "Invalid client ID!"
QuotaExceeded == "Client has reached max requests!"
InvalidPriority == "Priority must be greater than zero!"
DuplicateRequest == "Request already exists!"
Accepted == "added successfully!"
WorkerNotFound == "Invalid server ID"
MarkedDown == "marked as down"
MarkedUp == "marked as up"
Constructed == "constructed"
Configured == "System configured"
QueueEmpty == "queue empty"
Delayed == "No active servers available"
Assigned == "assigned to Server"

VARIABLES servers, clients, request_queue, pending_requests, all_requests,
          last, requeued, calls, loop, script

vars == <<servers, clients, request_queue, pending_requests, all_requests,
          last, requeued, calls, loop, script>>

\* the control state of the threads: the add_request calls in flight, the
\* position and locals of the process_requests thread, and the position in
\* the end-to-end scenario; they only move in the specifications that run
\* the handlers statement by statement or follow the scenario
aux == <<calls, loop, script>>

\* the program's own data, without the history variables last and requeued
data == <<servers, clients, request_queue, pending_requests, all_requests>>

\* ---- heapq on tuples (priority, (client_id, request_id)) -----------------
\* variant of Lt: the order of priorities reversed
Lt_reversed(a, b) ==
    \/ a[1] > b[1]
    \/ /\ a[1] = b[1]
       /\ \/ a[2][1] < b[2][1]
          \/ a[2][1] = b[2][1] /\ a[2][2] < b[2][2]

\* variant of Lt: only the priorities are compared
Lt_priority_only(a, b) == a[1] < b[1]

\* Python's tuple comparison a < b
Lt(a, b) ==
    \/ a[1] < b[1]
    \/ /\ a[1] = b[1]
       /\ \/ a[2][1] < b[2][1]
          \/ a[2][1] = b[2][1] /\ a[2][2] < b[2][2]

RECURSIVE siftdown_loop(_, _, _, _)
siftdown_loop(heap, startpos, pos, newitem) ==
    IF pos > startpos
    THEN LET parentpos == (pos - 1) \div 2
             parent == heap[parentpos + 1]
         IN IF Lt(newitem, parent)
            THEN siftdown_loop([heap EXCEPT ![pos + 1] = parent], startpos, parentpos, newitem)
            ELSE [heap EXCEPT ![pos + 1] = newitem]
    ELSE [heap EXCEPT ![pos + 1] = newitem]

siftdown(heap, startpos, pos) == siftdown_loop(heap, startpos, pos, heap[pos + 1])

RECURSIVE siftup_loop(_, _, _, _)
siftup_loop(heap, startpos, pos, newitem) ==
    LET endpos == Len(heap)
        leftpos == 2 * pos + 1
    IN IF leftpos < endpos
       THEN LET rightpos == leftpos + 1
                childpos == IF rightpos < endpos /\ ~Lt(heap[leftpos + 1], heap[rightpos + 1])
                            THEN rightpos ELSE leftpos
            IN siftup_loop([heap EXCEPT ![pos + 1] = heap[childpos + 1]], startpos, childpos, newitem)
       ELSE siftdown([heap EXCEPT ![pos + 1] = newitem], startpos, pos)

siftup(heap, pos) == siftup_loop(heap, pos, pos, heap[pos + 1])

heappush(heap, item) == siftdown(Append(heap, item), 0, Len(heap))

\* the item heappop returns, and the heap it leaves (heap is non-empty)
heappop_item(heap) == heap[1]

heappop_rest(heap) ==
    LET lastelt == heap[Len(heap)]
        rest == SubSeq(heap, 1, Len(heap) - 1)
    IN IF rest # <<>> THEN siftup([rest EXCEPT ![1] = lastelt], 0) ELSE rest

\* an empty dict
EmptyDict == [i \in {} |-> 0]

\* a request thread that is in no add_request call, and the process_requests
\* thread in its time.sleep(5) with no item in hand
NoCall == [pc |-> "idle", args |-> <<>>]
LoopAsleep == [pc |-> "sleep", item |-> <<>>, active_servers |-> EmptyDict]

\* ---- state after construction --------------------------------------------
\* pending_requests holds references to the entry objects that all_requests
\* holds too (the same dict is appended to both lists): a reference is the
\* entry's position in all_requests, which never changes.
\* last and requeued are history variables: the last operation's response
\* (with the arguments of an add_request, or the item a cycle popped and the
\* server it assigned to), and the queue items that were re-added by the
\* no-server branch and not dispatched since.
Init ==
    /\ servers = EmptyDict
    /\ clients = EmptyDict
    /\ request_queue = <<>>
    /\ pending_requests = <<>>
    /\ all_requests = <<>>
    /\ last = [res |-> Constructed, args |-> <<>>, server |-> -1]
    /\ requeued = {}
    /\ calls = [t \in Threads |-> NoCall]
    /\ loop = LoopAsleep
    /\ script = 0

\* ---- LoadBalancer.configure ----------------------------------------------
configure(num_servers, num_clients, requests_per_client) ==
    /\ servers' = [i \in 0..(num_servers - 1) |-> [handled_requests |-> 0, active |-> TRUE]]
    /\ clients' = [i \in 0..(num_clients - 1) |-> requests_per_client]
    /\ last' = [res |-> Configured, args |-> <<>>, server |-> -1]
    /\ UNCHANGED <<request_queue, pending_requests, all_requests, requeued>>

\* ---- LoadBalancer.add_request --------------------------------------------
\* variant of existing_requests: a queued item matches on its request_id
\* alone, whoever the client is
existing_requests_any_client ==
    {<<c, request_queue[i][2][2]>> : c \in DOMAIN clients, i \in 1..Len(request_queue)}

\* existing_requests = [(r[1][0], r[1][1]) for r in request_queue.queue]
existing_requests == {request_queue[i][2] : i \in 1..Len(request_queue)}

request_entry(client_id, request_id, priority) ==
    [client_id |-> client_id, request_id |-> request_id, priority |-> priority,
     status |-> "pending"]

\* variant of add_request_response: the priority check moved before the quota check
add_request_response_priority_first(client_id, request_id, priority) ==
    IF client_id \notin DOMAIN clients THEN InvalidClient
    ELSE IF priority <= 0 THEN InvalidPriority
    ELSE IF clients[client_id] <= 0 THEN QuotaExceeded
    ELSE IF <<client_id, request_id>> \in existing_requests THEN DuplicateRequest
    ELSE Accepted

\* the response of add_request, by the order of its checks
add_request_response(client_id, request_id, priority) ==
    IF client_id \notin DOMAIN clients THEN InvalidClient
    ELSE IF clients[client_id] <= 0 THEN QuotaExceeded
    ELSE IF priority <= 0 THEN InvalidPriority
    ELSE IF <<client_id, request_id>> \in existing_requests THEN DuplicateRequest
    ELSE Accepted

\* variant of ledger_append: the entry is put in front
ledger_prepend(reqs, entry) == <<entry>> \o reqs

\* all_requests.append(request_entry)
ledger_append(reqs, entry) == Append(reqs, entry)

\* variant of add_request: the quota is decremented right after the quota
\* check, before the priority and duplicate checks
add_request_early_decrement(client_id, request_id, priority) ==
    LET response == add_request_response(client_id, request_id, priority)
    IN /\ last' = [res |-> response, args |-> <<client_id, request_id, priority>>, server |-> -1]
       /\ IF response = Accepted
          THEN /\ Len(all_requests) < MaxLedger
               /\ request_queue' = heappush(request_queue, <<priority, <<client_id, request_id>>>>)
               /\ clients' = [clients EXCEPT ![client_id] = @ - 1]
               /\ all_requests' = ledger_append(all_requests, request_entry(client_id, request_id, priority))
               /\ pending_requests' = Append(pending_requests, Len(all_requests) + 1)
               /\ UNCHANGED <<servers, requeued>>
          ELSE /\ clients' = IF response \in {InvalidPriority, DuplicateRequest}
                             THEN [clients EXCEPT ![client_id] = @ - 1] ELSE clients
               /\ UNCHANGED <<servers, request_queue, pending_requests, all_requests, requeued>>

add_request(client_id, request_id, priority) ==
    LET response == add_request_response(client_id, request_id, priority)
    IN /\ last' = [res |-> response, args |-> <<client_id, request_id, priority>>, server |-> -1]
       /\ IF response = Accepted
          THEN /\ Len(all_requests) < MaxLedger
               /\ request_queue' = heappush(request_queue, <<priority, <<client_id, request_id>>>>)
               /\ clients' = [clients EXCEPT ![client_id] = @ - 1]
               /\ all_requests' = ledger_append(all_requests, request_entry(client_id, request_id, priority))
               /\ pending_requests' = Append(pending_requests, Len(all_requests) + 1)
               /\ UNCHANGED <<servers, requeued>>
          ELSE UNCHANGED <<servers, clients, request_queue, pending_requests, all_requests,
                           requeued>>

\* ---- LoadBalancer.process_requests: one cycle of the loop ----------------
\* variant of active_servers: the active flag is not looked at
active_servers_all == DOMAIN servers

active_servers == {sid \in DOMAIN servers : servers[sid].active}

\* min(active_servers, key=handled_requests): the dict is iterated in
\* insertion order (0, 1, ...) and the first smallest key wins
\* variant of min_scan: a later server with an equal count replaces the best
RECURSIVE min_scan_last_tie(_, _, _)
min_scan_last_tie(best, sid, n) ==
    IF sid >= n THEN best
    ELSE IF sid \notin active_servers THEN min_scan_last_tie(best, sid + 1, n)
    ELSE IF best = -1 \/ servers[sid].handled_requests <= servers[best].handled_requests
         THEN min_scan_last_tie(sid, sid + 1, n)
         ELSE min_scan_last_tie(best, sid + 1, n)

RECURSIVE min_scan(_, _, _)
min_scan(best, sid, n) ==
    IF sid >= n THEN best
    ELSE IF sid \notin active_servers THEN min_scan(best, sid + 1, n)
    ELSE IF best = -1 \/ servers[sid].handled_requests < servers[best].handled_requests
         THEN min_scan(sid, sid + 1, n)
         ELSE min_scan(best, sid + 1, n)

available_server == min_scan(-1, 0, Cardinality(DOMAIN servers))

\* for req in all_requests: if req["request_id"] == request_id: ...; break
matching(reqs, request_id) == {i \in 1..Len(reqs) : reqs[i].request_id = request_id}

first_match(reqs, request_id) ==
    CHOOSE i \in matching(reqs, request_id) : \A j \in matching(reqs, request_id) : i <= j

\* variant of mark_processed: the status of the first match is toggled
mark_processed_toggle(reqs, request_id) ==
    IF matching(reqs, request_id) = {} THEN reqs
    ELSE [reqs EXCEPT ![first_match(reqs, request_id)].status =
                         IF @ = "pending" THEN "processed" ELSE "pending"]

mark_processed(reqs, request_id) ==
    IF matching(reqs, request_id) = {} THEN reqs
    ELSE [reqs EXCEPT ![first_match(reqs, request_id)].status = "processed"]

\* pending_requests[:] = [req for req in pending_requests if req["request_id"] != request_id]
remove_pending(pending, reqs, request_id) ==
    SelectSeq(pending, LAMBDA i : reqs[i].request_id # request_id)

\* variant of process_requests: the item is re-added with the priority 1
\* instead of the priority it was popped with
process_requests_requeue_first ==
    IF request_queue = <<>>
    THEN /\ last' = [res |-> QueueEmpty, args |-> <<>>, server |-> -1]
         /\ UNCHANGED <<servers, clients, request_queue, pending_requests, all_requests,
                         requeued>>
    ELSE LET item == heappop_item(request_queue)
             popped == heappop_rest(request_queue)
             priority == item[1]
             client_id == item[2][1]
             request_id == item[2][2]
         IN IF active_servers = {}
            THEN /\ request_queue' = heappush(popped, <<1, <<client_id, request_id>>>>)
                 /\ requeued' = requeued \cup {item}
                 /\ last' = [res |-> Delayed, args |-> <<priority, client_id, request_id>>,
                             server |-> -1]
                 /\ UNCHANGED <<servers, clients, pending_requests, all_requests>>
            ELSE /\ request_queue' = popped
                 /\ servers' = [servers EXCEPT ![available_server].handled_requests = @ + 1]
                 /\ all_requests' = mark_processed(all_requests, request_id)
                 /\ pending_requests' = remove_pending(pending_requests, all_requests, request_id)
                 /\ requeued' = requeued \ {item}
                 /\ last' = [res |-> Assigned, args |-> <<priority, client_id, request_id>>,
                             server |-> available_server]
                 /\ UNCHANGED <<clients>>

process_requests ==
    IF request_queue = <<>>
    THEN /\ last' = [res |-> QueueEmpty, args |-> <<>>, server |-> -1]
         /\ UNCHANGED <<servers, clients, request_queue, pending_requests, all_requests,
                         requeued>>
    ELSE LET item == heappop_item(request_queue)
             popped == heappop_rest(request_queue)
             priority == item[1]
             client_id == item[2][1]
             request_id == item[2][2]
         IN IF active_servers = {}
            THEN /\ request_queue' = heappush(popped, <<priority, <<client_id, request_id>>>>)
                 /\ requeued' = requeued \cup {item}
                 /\ last' = [res |-> Delayed, args |-> <<priority, client_id, request_id>>,
                             server |-> -1]
                 /\ UNCHANGED <<servers, clients, pending_requests, all_requests>>
            ELSE /\ request_queue' = popped
                 /\ servers' = [servers EXCEPT ![available_server].handled_requests = @ + 1]
                 /\ all_requests' = mark_processed(all_requests, request_id)
                 /\ pending_requests' = remove_pending(pending_requests, all_requests, request_id)
                 /\ requeued' = requeued \ {item}
                 /\ last' = [res |-> Assigned, args |-> <<priority, client_id, request_id>>,
                             server |-> available_server]
                 /\ UNCHANGED <<clients>>

\* ---- /server_down and /server_up ------------------------------------------
set_active(server_id, active, ok) ==
    IF server_id \notin DOMAIN servers
    THEN /\ last' = [res |-> WorkerNotFound, args |-> <<>>, server |-> -1]
         /\ UNCHANGED <<servers, clients, request_queue, pending_requests, all_requests,
                         requeued>>
    ELSE /\ servers' = [servers EXCEPT ![server_id].active = active]
         /\ last' = [res |-> ok, args |-> <<>>, server |-> -1]
         /\ UNCHANGED <<clients, request_queue, pending_requests, all_requests,
                         requeued>>

mark_server_down(server_id) == set_active(server_id, FALSE, MarkedDown)

mark_server_up(server_id) == set_active(server_id, TRUE, MarkedUp)

\* ---- LoadBalancer.get_all_requests / get_server_status -------------------
get_all_requests == all_requests

get_server_status == servers

Next ==
    \/ \E s \in ServerCounts, c \in ClientCounts, q \in QuotaVals :
          configure(s, c, q) /\ UNCHANGED aux
    \/ \E c \in ClientIds, r \in RequestIds, p \in Priorities :
          add_request(c, r, p) /\ UNCHANGED aux
    \/ process_requests /\ UNCHANGED aux
    \/ \E s \in ServerIds : mark_server_down(s) /\ UNCHANGED aux
    \/ \E s \in ServerIds : mark_server_up(s) /\ UNCHANGED aux

Spec == Init /\ [][Next]_vars

\* the loop of process_requests runs in its own thread and never stops: a
\* cycle that can change something is eventually run
LiveSpec == Spec /\ WF_vars(process_requests /\ UNCHANGED aux)

\* ---- the end-to-end scenario ------------------------------------------------
\* Configure(2,1,Q); Submit(0,1,hi); Submit(0,1,hi) again; Submit(0,2,lo) with
\* lo < hi; a cycle; server_down(0); server_down(1); a cycle; server_up(0); a
\* cycle.  The scenario of the specification is Q = 3, hi = 5, lo = 1.
ScenarioQuotas == {2, 3}
ScenarioPriorities == 1..5

ScenarioStep(n, op) == script = n /\ op /\ script' = n + 1 /\ UNCHANGED <<calls, loop>>

ScenarioNext ==
    \/ \E q \in ScenarioQuotas : ScenarioStep(0, configure(2, 1, q))
    \/ \E hi \in ScenarioPriorities : ScenarioStep(1, add_request(0, 1, hi))
    \/ ScenarioStep(2, add_request(0, 1, all_requests[1].priority))
    \/ \E lo \in ScenarioPriorities :
          ScenarioStep(3, lo < all_requests[1].priority /\ add_request(0, 2, lo))
    \/ ScenarioStep(4, process_requests)
    \/ ScenarioStep(5, mark_server_down(0))
    \/ ScenarioStep(6, mark_server_down(1))
    \/ ScenarioStep(7, process_requests)
    \/ ScenarioStep(8, mark_server_up(0))
    \/ ScenarioStep(9, process_requests)

ScenarioSpec == Init /\ [][ScenarioNext]_vars

\* ---- the handlers statement by statement -------------------------------------
\* add_request is run by the request threads of the server, any number of
\* them at once, and takes no lock before line 63; process_requests runs in
\* its own thread and pops its item before it takes self.lock, which no other
\* handler takes.  A step is one statement (or one block under pending_lock).
InFlight == {t \in Threads : calls[t].pc # "idle"}

\* lines 38-45: the client, quota and priority checks; a call that fails one
\* returns
call_begin(t, client_id, request_id, priority) ==
    /\ calls[t].pc = "idle"
    /\ Len(all_requests) + Cardinality(InFlight) < MaxLedger
    /\ calls' = IF /\ client_id \in DOMAIN clients
                   /\ clients[client_id] > 0
                   /\ priority > 0
                THEN [calls EXCEPT ![t] = [pc |-> "scan",
                                           args |-> <<client_id, request_id, priority>>]]
                ELSE calls
    /\ UNCHANGED <<servers, clients, request_queue, pending_requests, all_requests,
                    last, requeued, loop, script>>

\* lines 48-50: the scan of request_queue.queue for the key
call_scan(t) ==
    /\ calls[t].pc = "scan"
    /\ calls' = IF <<calls[t].args[1], calls[t].args[2]>> \in existing_requests
                THEN [calls EXCEPT ![t] = NoCall]
                ELSE [calls EXCEPT ![t].pc = "put"]
    /\ UNCHANGED <<servers, clients, request_queue, pending_requests, all_requests,
                    last, requeued, loop, script>>

\* line 52: request_queue.put
call_put(t) ==
    /\ calls[t].pc = "put"
    /\ request_queue' = heappush(request_queue,
                                  <<calls[t].args[3], <<calls[t].args[1], calls[t].args[2]>>>>)
    /\ calls' = [calls EXCEPT ![t].pc = "decrement"]
    /\ UNCHANGED <<servers, clients, pending_requests, all_requests,
                    last, requeued, loop, script>>

\* line 53: clients[client_id] -= 1, a KeyError (the call ends) if a configure
\* has removed the client meanwhile
call_decrement(t) ==
    /\ calls[t].pc = "decrement"
    /\ IF calls[t].args[1] \in DOMAIN clients
       THEN /\ clients' = [clients EXCEPT ![calls[t].args[1]] = @ - 1]
            /\ calls' = [calls EXCEPT ![t].pc = "append"]
       ELSE /\ calls' = [calls EXCEPT ![t] = NoCall]
            /\ UNCHANGED clients
    /\ UNCHANGED <<servers, request_queue, pending_requests, all_requests,
                    last, requeued, loop, script>>

\* lines 63-68: both appends under pending_lock, and the return
call_append(t) ==
    /\ calls[t].pc = "append"
    /\ all_requests' = ledger_append(all_requests,
                            request_entry(calls[t].args[1], calls[t].args[2], calls[t].args[3]))
    /\ pending_requests' = Append(pending_requests, Len(all_requests) + 1)
    /\ calls' = [calls EXCEPT ![t] = NoCall]
    /\ UNCHANGED <<servers, clients, request_queue, last, requeued, loop, script>>

\* lines 75-76: the queue is not empty and its smallest item is taken
loop_get ==
    /\ loop.pc = "sleep"
    /\ request_queue # <<>>
    /\ loop' = [pc |-> "lock", item |-> heappop_item(request_queue),
                active_servers |-> EmptyDict]
    /\ request_queue' = heappop_rest(request_queue)
    /\ UNCHANGED <<servers, clients, pending_requests, all_requests,
                    last, requeued, calls, script>>

\* lines 78-85: under self.lock, the dict of the active servers (with the
\* counts min will read) is built; if it is empty the item is put back
loop_lock ==
    /\ loop.pc = "lock"
    /\ IF active_servers = {}
       THEN /\ request_queue' = heappush(request_queue, loop.item)
            /\ loop' = LoopAsleep
       ELSE /\ loop' = [loop EXCEPT !.pc = "assign",
                                     !.active_servers = [sid \in active_servers |->
                                                           servers[sid].handled_requests]]
            /\ UNCHANGED request_queue
    /\ UNCHANGED <<servers, clients, pending_requests, all_requests,
                    last, requeued, calls, script>>

\* min(active_servers, key=...) over the dict built at line 79
least_loaded(snapshot) ==
    CHOOSE sid \in DOMAIN snapshot :
       \A other \in DOMAIN snapshot :
          \/ snapshot[sid] < snapshot[other]
          \/ snapshot[sid] = snapshot[other] /\ sid <= other

\* lines 88-89: the least loaded server of that dict is incremented in the
\* servers of now: a KeyError ends the thread if a configure has removed it
loop_assign ==
    /\ loop.pc = "assign"
    /\ IF least_loaded(loop.active_servers) \in DOMAIN servers
       THEN /\ servers' = [servers EXCEPT
                              ![least_loaded(loop.active_servers)].handled_requests = @ + 1]
            /\ loop' = [loop EXCEPT !.pc = "flip"]
       ELSE /\ loop' = [pc |-> "dead", item |-> <<>>, active_servers |-> EmptyDict]
            /\ UNCHANGED servers
    /\ UNCHANGED <<clients, request_queue, pending_requests, all_requests,
                    last, requeued, calls, script>>

\* lines 92-98: under pending_lock, the status and the pending list
loop_flip ==
    /\ loop.pc = "flip"
    /\ all_requests' = mark_processed(all_requests, loop.item[2][2])
    /\ pending_requests' = remove_pending(pending_requests, all_requests, loop.item[2][2])
    /\ loop' = LoopAsleep
    /\ UNCHANGED <<servers, clients, request_queue, last, requeued, calls, script>>

\* Concurrent calls of add_request against the dispatch thread and configure
RaceNext ==
    \/ \E s \in ServerCounts, c \in ClientCounts, q \in QuotaVals :
          configure(s, c, q) /\ UNCHANGED aux
    \/ \E t \in Threads, c \in ClientIds, r \in RequestIds, p \in Priorities :
          call_begin(t, c, r, p)
    \/ \E t \in Threads : call_scan(t)
    \/ \E t \in Threads : call_put(t)
    \/ \E t \in Threads : call_decrement(t)
    \/ \E t \in Threads : call_append(t)
    \/ loop_get
    \/ loop_lock
    \/ loop_assign
    \/ loop_flip

RaceSpec == Init /\ [][RaceNext]_vars

\* The dispatch thread statement by statement against the other endpoints
LoopNext ==
    \/ \E s \in ServerCounts, c \in ClientCounts, q \in QuotaVals :
          configure(s, c, q) /\ UNCHANGED aux
    \/ \E c \in ClientIds, r \in RequestIds, p \in Priorities :
          add_request(c, r, p) /\ UNCHANGED aux
    \/ loop_get
    \/ loop_lock
    \/ loop_assign
    \/ loop_flip
    \/ \E s \in ServerIds : mark_server_down(s) /\ UNCHANGED aux
    \/ \E s \in ServerIds : mark_server_up(s) /\ UNCHANGED aux

LoopSpec == Init /\ [][LoopNext]_vars

\* ======================= properties ========================================
\* the last step was an add_request / a cycle of process_requests
SubmitResponses == {InvalidClient, QuotaExceeded, InvalidPriority, DuplicateRequest, Accepted}
Rejections == {InvalidClient, QuotaExceeded, InvalidPriority, DuplicateRequest}
IsSubmit == last.res \in SubmitResponses
Key(args) == <<args[1], args[2]>>

\* C1: add_request checks client exists, quota > 0, priority > 0, no queued
\* item with the same key, in that order, and answers with the reason of the
\* first check that fails, whatever later checks would fail too; it accepts
\* only when all four pass.
C1_RejectionOrder ==
    [][IsSubmit' =>
        LET c == last'.args[1]
            r == last'.args[2]
            p == last'.args[3]
            known == c \in DOMAIN clients
            quota == known /\ clients[c] > 0
            valid == p > 0
            fresh == \A i \in 1..Len(request_queue) : request_queue[i][2] # <<c, r>>
        IN /\ ~known => last'.res = InvalidClient
           /\ known /\ ~quota => last'.res = QuotaExceeded
           /\ known /\ quota /\ ~valid => last'.res = InvalidPriority
           /\ known /\ quota /\ valid /\ ~fresh => last'.res = DuplicateRequest
           /\ (last'.res = Accepted) <=> (known /\ quota /\ valid /\ fresh)]_vars

\* a call that failed the quota, the priority and the duplicate check at once
\* was answered QuotaExceeded
C1_Witness ==
    /\ last.res = QuotaExceeded
    /\ last.args[3] <= 0
    /\ Key(last.args) \in existing_requests

\* C2: an add_request answered with a rejection, and a server_down/server_up
\* on an unknown server id, leave quotas, queue, ledger, pending list and
\* servers exactly as they were.
C2_RejectionNoChange ==
    [][last'.res \in Rejections \cup {WorkerNotFound} => UNCHANGED data]_vars

\* a duplicate was rejected while a request is queued and quota is left
C2_Witness ==
    /\ last.res = DuplicateRequest
    /\ request_queue # <<>>
    /\ clients[last.args[1]] > 0

\* C3: after a configure with requests_per_client = Q, the add_request calls
\* of a client with distinct request ids and valid priorities are accepted
\* exactly Q times, each taking 1 from its quota.  Stated for the first call
\* after a configure with Q >= 1: it is accepted and leaves Q - 1.
C3_QuotaBound ==
    [][(last.res = Configured /\ IsSubmit'
         /\ last'.args[1] \in DOMAIN clients /\ last'.args[3] > 0
         /\ clients[last'.args[1]] >= 1)
        => /\ last'.res = Accepted
           /\ clients'[last'.args[1]] = clients[last'.args[1]] - 1]_vars

\* C4: a call that passes the client, quota and priority checks is answered
\* DuplicateRequest exactly when an item with the same (client_id,
\* request_id) is in the queue at that moment: ledger entries of dispatched
\* requests and queued items of other clients with the same request_id do
\* not count.
C4_DuplicateScope ==
    [][(IsSubmit' /\ last'.res \notin {InvalidClient, QuotaExceeded, InvalidPriority})
        => ((last'.res = DuplicateRequest)
              <=> (\E i \in 1..Len(request_queue) :
                      /\ request_queue[i][2][1] = last'.args[1]
                      /\ request_queue[i][2][2] = last'.args[2]))]_vars

\* a key was accepted again after its earlier request had been dispatched
C4_Witness ==
    /\ last.res = Accepted
    /\ \E i \in 1..(Len(all_requests) - 1) :
          /\ all_requests[i].client_id = last.args[1]
          /\ all_requests[i].request_id = last.args[2]
          /\ all_requests[i].status = "processed"
    /\ Cardinality({i \in 1..Len(request_queue) : request_queue[i][2] = Key(last.args)}) = 1

\* C5: the item a cycle assigns has the smallest priority value of all items
\* that were in the queue when it was popped, and no item with a strictly
\* smaller priority value is left in the queue.
C5_PriorityOrder ==
    [][last'.res = Assigned =>
        /\ \E i \in 1..Len(request_queue) :
              request_queue[i] = <<last'.args[1], <<last'.args[2], last'.args[3]>>>>
        /\ \A i \in 1..Len(request_queue) : last'.args[1] <= request_queue[i][1]
        /\ \A i \in 1..Len(request_queue') : last'.args[1] <= request_queue'[i][1]]_vars

\* an item was assigned while an item of larger priority value stays queued
C5_Witness ==
    /\ last.res = Assigned
    /\ \E i \in 1..Len(request_queue) : request_queue[i][1] > last.args[1]

\* the position in all_requests of the latest entry of a key: the order in
\* which the queued items were accepted
Admission(key) ==
    LET S == {i \in 1..Len(all_requests) :
                <<all_requests[i].client_id, all_requests[i].request_id>> = key}
    IN CHOOSE i \in S : \A j \in S : j <= i

PoppedItem(l) == <<l.args[1], <<l.args[2], l.args[3]>>>>

\* C6 as stated: of two queued items with the same priority, neither of them
\* re-queued, the one accepted first is popped and assigned first.
C6_TiesFifo ==
    [][last'.res = Assigned =>
        \A i \in 1..Len(request_queue) :
           LET x == PoppedItem(last')
               y == request_queue[i]
           IN (y # x /\ y[1] = x[1] /\ x \notin requeued /\ y \notin requeued)
                 => Admission(x[2]) < Admission(y[2])]_vars

\* C6 amended: of two queued items with the same priority the one with the
\* smaller (client_id, request_id) is popped and assigned first, whichever
\* was accepted first.
C6_TiesByKey ==
    [][last'.res = Assigned =>
        \A i \in 1..Len(request_queue) :
           LET x == PoppedItem(last')
               y == request_queue[i]
           IN (y # x /\ y[1] = x[1])
                 => \/ x[2][1] < y[2][1]
                    \/ x[2][1] = y[2][1] /\ x[2][2] < y[2][2]]_vars

\* an item was assigned ahead of a queued item of the same priority that was
\* accepted before it, neither of them re-queued
C6_Witness ==
    /\ last.res = Assigned
    /\ requeued = {}
    /\ \E i \in 1..Len(request_queue) :
          /\ request_queue[i][1] = last.args[1]
          /\ Admission(request_queue[i][2]) < Admission(<<last.args[2], last.args[3]>>)

\* C7: a cycle that pops an item while some server is active adds exactly 1
\* to the handled_requests of exactly one server, the active server with the
\* smallest count and, among those, the smallest id; inactive servers are
\* never chosen, and nothing else in servers changes.
IsCycle == last.res \in {QueueEmpty, Delayed, Assigned}

C7_LeastLoaded ==
    [][IsCycle' =>
        /\ (last'.res = Assigned) <=> (request_queue # <<>> /\ active_servers # {})
        /\ last'.res = Assigned =>
              LET w == last'.server
              IN /\ w \in active_servers
                 /\ \A t \in active_servers :
                       \/ servers[w].handled_requests < servers[t].handled_requests
                       \/ servers[w].handled_requests = servers[t].handled_requests /\ w <= t
                 /\ servers' = [servers EXCEPT ![w].handled_requests = @ + 1]
        /\ last'.res # Assigned => servers' = servers]_vars

\* a server was chosen while an inactive server had a smaller count
C7_Witness ==
    /\ last.res = Assigned
    /\ \E t \in DOMAIN servers :
          /\ ~servers[t].active
          /\ servers[t].handled_requests < servers[last.server].handled_requests - 1

\* a server was chosen ahead of an active server of larger id tied with it at
\* the minimum
C7_WitnessTie ==
    /\ last.res = Assigned
    /\ \E t \in DOMAIN servers :
          /\ t > last.server
          /\ servers[t].active
          /\ servers[t].handled_requests = servers[last.server].handled_requests - 1

\* C8: a pending ledger entry is eventually processed, if from some point on
\* some server stays active and no configure happens and the loop keeps
\* running.
PendingAt(i) == i <= Len(all_requests) /\ all_requests[i].status = "pending"
ProcessedAt(i) == i <= Len(all_requests) /\ all_requests[i].status = "processed"
ConfigureStep == \E s \in ServerCounts, c \in ClientCounts, q \in QuotaVals : configure(s, c, q)

C8_NoLoss ==
    \A i \in 1..MaxLedger :
        (<>[](active_servers # {}) /\ <>[][~ConfigureStep]_vars)
            => [](PendingAt(i) => <>ProcessedAt(i))

\* C9: the status of a ledger entry only ever changes from pending to
\* processed: whatever the step, an entry stays in place and a processed
\* entry stays processed.
C9_StatusMonotone ==
    [][\A i \in 1..Len(all_requests) :
          /\ i <= Len(all_requests')
          /\ all_requests[i].status \in {"pending", "processed"}
          /\ all_requests'[i].status # all_requests[i].status
                => all_requests[i].status = "pending" /\ all_requests'[i].status = "processed"]_vars

\* a cycle assigned a request whose request_id matches a ledger entry that was
\* processed before: the entry is still processed
C9_Witness ==
    /\ last.res = Assigned
    /\ \E i \in 1..Len(all_requests) : \E j \in 1..Len(all_requests) :
          /\ i < j
          /\ all_requests[i].request_id = last.args[3]
          /\ all_requests[i].status = "processed"
          /\ all_requests[j].request_id = last.args[3]
          /\ <<all_requests[j].client_id, all_requests[j].request_id>> \notin existing_requests

\* C10: the ledger is append-only: an accepted add_request appends exactly
\* one pending entry with its arguments at the end, every other step appends
\* none, and no step removes, reorders or rewrites the client_id, request_id
\* or priority of an entry; get_all_requests returns the ledger as it is.
SameRequest(a, b) ==
    /\ a.client_id = b.client_id
    /\ a.request_id = b.request_id
    /\ a.priority = b.priority

C10_AppendOnly ==
    [][/\ \A i \in 1..Len(all_requests) :
             i <= Len(all_requests') /\ SameRequest(all_requests'[i], all_requests[i])
       /\ last'.res = Accepted =>
             /\ Len(all_requests') = Len(all_requests) + 1
             /\ all_requests'[Len(all_requests')] =
                   [client_id |-> last'.args[1], request_id |-> last'.args[2],
                    priority |-> last'.args[3], status |-> "pending"]
       /\ last'.res # Accepted => Len(all_requests') = Len(all_requests)
       /\ get_all_requests' = all_requests']_vars

\* a second request was accepted after the first one had been dispatched
C10_Witness ==
    /\ last.res = Accepted
    /\ Len(all_requests) = 2
    /\ all_requests[1].status = "processed"
    /\ all_requests[2].status = "pending"
    /\ all_requests[2].priority = last.args[3]

\* C11: whatever the state before, after configure(num_servers, num_clients,
\* requests_per_client) the servers are 0..num_servers-1, all active with
\* handled_requests 0, the clients are 0..num_clients-1 with quota
\* requests_per_client, and the queue, the ledger and the pending list are
\* empty.
C11_ConfigureResets ==
    [][last'.res = Configured =>
        /\ \E n \in ServerCounts, m \in ClientCounts, q \in QuotaVals :
              /\ servers' = [i \in 0..(n - 1) |-> [handled_requests |-> 0, active |-> TRUE]]
              /\ clients' = [i \in 0..(m - 1) |-> q]
        /\ request_queue' = <<>>
        /\ all_requests' = <<>>
        /\ pending_requests' = <<>>]_vars

\* C12: in the end-to-end scenario the first Submit(0,1,hi) is accepted, its
\* repetition is a duplicate, Submit(0,2,lo) is accepted; the first cycle
\* processes request 2 on server 0 and leaves request 1 pending; with both
\* servers down the next cycle leaves request 1 pending and the counts as they
\* are; with server 0 up again the next cycle processes request 1 on server 0,
\* whose count becomes 2 while server 1 stays at 0.
Handled == [sid \in DOMAIN servers |-> servers[sid].handled_requests]

StatusOf(request_id) ==
    {all_requests[i].status : i \in {j \in 1..Len(all_requests) :
                                       all_requests[j].request_id = request_id}}

C12_Scenario ==
    /\ script = 2 => last.res = Accepted
    /\ script = 3 => last.res = DuplicateRequest /\ Len(all_requests) = 1
    /\ script = 4 => last.res = Accepted /\ Len(all_requests) = 2
    /\ script \in 5..9 =>
          /\ StatusOf(2) = {"processed"}
          /\ StatusOf(1) = {"pending"}
          /\ Handled = (0 :> 1 @@ 1 :> 0)
    /\ script = 5 => last.res = Assigned /\ last.server = 0
    /\ script = 8 => last.res = Delayed
    /\ script = 10 =>
          /\ last.res = Assigned /\ last.server = 0
          /\ StatusOf(2) = {"processed"}
          /\ StatusOf(1) = {"processed"}
          /\ Handled = (0 :> 2 @@ 1 :> 0)

\* the end of the scenario with Q = 3, hi = 5, lo = 1
C12_Witness ==
    /\ script = 10
    /\ all_requests[1].priority = 5
    /\ all_requests[2].priority = 1
    /\ clients[0] = 1

\* C13: every item in the queue has a ledger entry with the same client_id,
\* request_id and priority whose status is pending, and a cycle that assigns
\* an item changes the status of pending entries of the popped (client_id,
\* request_id) only.
C13_QueueLedger ==
    [][/\ \A i \in 1..Len(request_queue') :
             \E j \in 1..Len(all_requests') :
                /\ all_requests'[j].client_id = request_queue'[i][2][1]
                /\ all_requests'[j].request_id = request_queue'[i][2][2]
                /\ all_requests'[j].priority = request_queue'[i][1]
                /\ all_requests'[j].status = "pending"
       /\ last'.res = Assigned =>
             \A j \in 1..Len(all_requests) :
                all_requests'[j].status # all_requests[j].status =>
                   /\ all_requests[j].client_id = last'.args[2]
                   /\ all_requests[j].request_id = last'.args[3]]_vars

\* C14: a cycle that pops an item and finds no active server puts the item
\* back with the priority, client_id and request_id it was popped with: the
\* queue holds the same items as often as before, and the ledger, the pending
\* list and the servers are unchanged.
Occurrences(queue, item) == Cardinality({i \in 1..Len(queue) : queue[i] = item})

C14_RequeueNoChange ==
    [][last'.res = Delayed =>
        /\ PoppedItem(last') = heappop_item(request_queue)
        /\ \A p \in Priorities, c \in ClientIds, r \in RequestIds :
              Occurrences(request_queue', <<p, <<c, r>>>>)
                 = Occurrences(request_queue, <<p, <<c, r>>>>)
        /\ Len(request_queue') = Len(request_queue)
        /\ UNCHANGED <<all_requests, pending_requests, servers, clients>>]_vars

\* an item of priority 2 was re-added while another item is queued and every
\* server is down
C14_Witness ==
    /\ last.res = Delayed
    /\ last.args[1] = 2
    /\ Len(request_queue) = 2
    /\ DOMAIN servers # {}
    /\ active_servers = {}
\* C15: the remaining quota of a client is never negative, also when several
\* add_request calls for the client interleave between the check of line 41
\* and the decrement of line 53.
C15_QuotaNonNegative ==
    \A c \in DOMAIN clients : clients[c] >= 0

\* C16: no two items of the queue carry the same (client_id, request_id), also
\* when two add_request calls for the key run concurrently.
C16_NoDuplicateKey ==
    \A i, j \in 1..Len(request_queue) :
       request_queue[i][2] = request_queue[j][2] => i = j

InLedger(key) ==
    \E i \in 1..Len(all_requests) :
       <<all_requests[i].client_id, all_requests[i].request_id>> = key

\* C17: the three effects of an accepted add_request appear together: every
\* item in the queue, and every item the dispatch thread has popped, has its
\* entry in all_requests.
C17_SubmitAtomic ==
    /\ \A i \in 1..Len(request_queue) : InLedger(request_queue[i][2])
    /\ loop.pc \in {"lock", "assign", "flip"} => InLedger(loop.item[2])

\* C18: the server whose handled_requests is incremented is active at the
\* moment of the increment, whatever mark_server_down did meanwhile.
C18_IncrementActive ==
    [][\A sid \in DOMAIN servers \cap DOMAIN servers' :
          servers'[sid].handled_requests = servers[sid].handled_requests + 1
             => servers[sid].active]_vars

\* C19: the dispatch thread never faults on a server id that a configure has
\* removed between its choice and its increment: it runs for ever.
C19_LoopNeverFaults ==
    loop.pc # "dead"

RECURSIVE SumHandled(_)
SumHandled(ids) ==
    IF ids = {} THEN 0
    ELSE LET sid == CHOOSE x \in ids : TRUE
         IN servers[sid].handled_requests + SumHandled(ids \ {sid})

CountStatus(status) ==
    Cardinality({i \in 1..Len(all_requests) : all_requests[i].status = status})

\* C20: between two cycles the handled_requests of all servers add up to the
\* number of Processed entries, and the number of Pending entries is the
\* length of the queue and of pending_requests.
C20_Conservation ==
    /\ SumHandled(DOMAIN servers) = CountStatus("processed")
    /\ CountStatus("pending") = Len(request_queue)
    /\ Len(request_queue) = Len(pending_requests)

====
